---- MODULE Spec2Model ----
(***************************************************************************)
(* Model of convert_fit_to_gpx (src/fit2gpx.py): one conversion call, from *)
(* the check of its input to the delivery of the GPX document.             *)
(*                                                                         *)
(* An optional value (a dict entry that .get() may answer with None, an    *)
(* argument that may be None, a return value) is a sequence: <<>> is None  *)
(* and <<v>> is the value v.                                               *)
(* A coordinate is the dyadic rational n / 2^e, written [n |-> n, e |-> e];*)
(* every input of the model and the factor 180 / 2^31 = 45 / 2^29 are      *)
(* dyadic, so the float arithmetic of the code is exact on them.           *)
(***************************************************************************)
EXTENDS FiniteSets, Integers, Sequences, TLC

\* The longest record stream the decoder yields in the model.
MaxRecords == 2

----------------------------------------------------------------------------
(* Values *)

Deg(n) == [n |-> n, e |-> 0]
HalfDeg(n) == [n |-> n, e |-> 1]

Abs(x) == IF x < 0 THEN -x ELSE x

\* abs(v) > k, for a dyadic v and an integer k (fit2gpx.py:71)
Exceeds(v, k) ==
    LET p == 2 ^ v.e
        a == Abs(v.n)
    IN  (a \div p > k) \/ (a \div p = k /\ a % p # 0)

\* 180.0 / 2**31 = SemiNum / 2^SemiExp
SemiNum == 45
SemiExp == 29

\* v * (180.0 / 2**31)
ToDegrees(v) == [n |-> v.n * SemiNum, e |-> v.e + SemiExp]

\* abs(v) >= k
AtLeast(v, k) == Abs(v.n) \div (2 ^ v.e) >= k

\* Variant of Normalize: each coordinate tested and converted on its own.
NormalizePerAxis(lat, lon) ==
    << IF Exceeds(lat, 90) THEN ToDegrees(lat) ELSE lat,
       IF Exceeds(lon, 180) THEN ToDegrees(lon) ELSE lon >>

\* Variant of Normalize: >= in place of > at line 71.
NormalizeInclusive(lat, lon) ==
    IF AtLeast(lat, 90) \/ AtLeast(lon, 180)
    THEN <<ToDegrees(lat), ToDegrees(lon)>>
    ELSE <<lat, lon>>

\* The semicircle heuristic of lines 71-73: one test, both coordinates.
Normalize(lat, lon) ==
    IF Exceeds(lat, 90) \/ Exceeds(lon, 180)
    THEN <<ToDegrees(lat), ToDegrees(lon)>>
    ELSE <<lat, lon>>

\* str() of an integer, as a sequence of characters
DigitChar(d) == <<"0", "1", "2", "3", "4", "5", "6", "7", "8", "9">>[d + 1]
RECURSIVE Digits(_)
Digits(n) == IF n < 10 THEN <<DigitChar(n)>>
             ELSE Append(Digits(n \div 10), DigitChar(n % 10))
Str(n) == IF n < 0 THEN <<"-">> \o Digits(-n) ELSE Digits(n)

----------------------------------------------------------------------------
(* Records the decoder can yield *)

Rec(lat, lon, ele, ts, hr, cad, temp) ==
    [position_lat |-> lat, position_long |-> lon, altitude |-> ele,
     timestamp |-> ts, heart_rate |-> hr, cadence |-> cad, temperature |-> temp]

\* <<lat, lon>> pairs: in range, on the boundary, one out of range, both out
\* of range, absent
Coords ==
    { << <<Deg(45)>>, <<Deg(9)>> >>,
      << <<HalfDeg(181)>>, <<Deg(10)>> >>,
      << <<Deg(45)>>, <<Deg(181)>> >>,
      << <<Deg(1000)>>, <<Deg(-2000)>> >>,
      << <<Deg(90)>>, <<Deg(180)>> >>,
      << <<Deg(-90)>>, <<Deg(-180)>> >>,
      << <<Deg(0)>>, <<Deg(0)>> >>,
      << <<>>, <<Deg(9)>> >>,
      << <<Deg(45)>>, <<>> >> }

CoordRecords ==
    { Rec(c[1], c[2], <<>>, <<"T1">>, <<>>, <<>>, <<>>) : c \in Coords }

NoTimeRecords ==
    { Rec(<<Deg(45)>>, <<Deg(9)>>, <<>>, <<>>, hr, <<>>, <<>>) :
        hr \in {<<>>, <<150>>} }

SensorRecords ==
    { Rec(<<Deg(45)>>, <<Deg(9)>>, <<100>>, <<"T0">>, hr, cad, temp) :
        hr \in {<<>>, <<150>>}, cad \in {<<>>, <<0>>}, temp \in {<<>>, <<-5>>} }

Records == CoordRecords \cup NoTimeRecords \cup SensorRecords

----------------------------------------------------------------------------
(* Arguments of the call and the file system *)

Path(base, ext) == [base |-> base, ext |-> ext]

\* Variant of DerivedPath: the extension is not replaced.
DerivedPathKeepExt(p) == p

\* os.path.splitext(p)[0] followed by f"{base_name}.gpx" (lines 117-118)
DerivedPath(p) == Path(p.base, "gpx")

Paths == { Path("ride", "fit"), Path("ride", ""), Path("ride", "gpx"),
           Path("out", "gpx") }

\* input_source: a str path (the file exists or not) or a file-like object
InputSources ==
    { [is_str |-> TRUE, path |-> Path("ride", "fit"), exists |-> TRUE],
      [is_str |-> TRUE, path |-> Path("ride", "fit"), exists |-> FALSE],
      [is_str |-> TRUE, path |-> Path("ride", ""), exists |-> TRUE],
      [is_str |-> FALSE, path |-> Path("", ""), exists |-> TRUE] }

\* output_dest: None, a str path, an object with write(), any other object
OutputDests ==
    { [kind |-> "None", path |-> Path("", "")],
      [kind |-> "str", path |-> Path("out", "gpx")],
      [kind |-> "writer", path |-> Path("", "")],
      [kind |-> "other", path |-> Path("", "")] }

NoFile == [exists |-> FALSE, data |-> <<>>]

\* The file system before the call: the input file, when it is a path that
\* exists. data is the sequence of documents the call wrote to the file.
InitFs(src) ==
    [p \in Paths |->
        IF src.is_str /\ src.exists /\ p = src.path
        THEN [exists |-> TRUE, data |-> <<>>]
        ELSE NoFile]

----------------------------------------------------------------------------
(* The GPX object and its serialisation *)

NSMAP == { <<"gpxtpx", "http://www.garmin.com/xmlschemas/TrackPointExtension/v1">> }

Element(tag, text, children) == [tag |-> tag, text |-> text, children |-> children]

\* Variant of ExtensionChildren: the cadence child is left out.
ExtensionChildrenNoCad(hr, cad, temp) ==
    (IF hr # <<>> THEN <<Element("gpxtpx:hr", Str(hr[1]), <<>>)>> ELSE <<>>)
    \o (IF temp # <<>> THEN <<Element("gpxtpx:atemp", Str(temp[1]), <<>>)>> ELSE <<>>)

\* The children of gpxtpx:TrackPointExtension (lines 93-103)
ExtensionChildren(hr, cad, temp) ==
    (IF hr # <<>> THEN <<Element("gpxtpx:hr", Str(hr[1]), <<>>)>> ELSE <<>>)
    \o (IF cad # <<>> THEN <<Element("gpxtpx:cad", Str(cad[1]), <<>>)>> ELSE <<>>)
    \o (IF temp # <<>> THEN <<Element("gpxtpx:atemp", Str(temp[1]), <<>>)>> ELSE <<>>)

\* gpx_point.extensions after lines 84-105
PointExtensions(record_data) ==
    LET hr == record_data.heart_rate
        cad == record_data.cadence
        temp == record_data.temperature
    IN  IF hr # <<>> \/ cad # <<>> \/ temp # <<>>
        THEN << Element("extensions", <<>>,
                  << Element("gpxtpx:TrackPointExtension", <<>>,
                             ExtensionChildren(hr, cad, temp)) >>) >>
        ELSE <<>>

\* Variant of Qualifies: the timestamp is not tested.
QualifiesWithoutTime(record_data) ==
    record_data.position_lat # <<>> /\ record_data.position_long # <<>>

\* line 67: valid track points must have lat, lon and time
Qualifies(record_data) ==
    /\ record_data.position_lat # <<>>
    /\ record_data.position_long # <<>>
    /\ record_data.timestamp # <<>>

\* The GPXTrackPoint of lines 76-105, for a record that qualifies
TrackPoint(record_data) ==
    LET ll == Normalize(record_data.position_lat[1], record_data.position_long[1])
    IN  [latitude |-> ll[1], longitude |-> ll[2],
         elevation |-> record_data.altitude, time |-> record_data.timestamp,
         extensions |-> PointExtensions(record_data)]

EmptyGpx == [nsmap |-> {}, tracks |-> <<>>]

\* Variant of NewGpx: line 52 is missing.
NewGpxNoNamespace == [nsmap |-> {}, tracks |-> << [segments |-> << [points |-> <<>>] >>] >>]

\* Variant of NewGpx: the segment is appended to the track twice.
NewGpxTwoSegments ==
    [nsmap |-> NSMAP,
     tracks |-> << [segments |-> << [points |-> <<>>], [points |-> <<>>] >>] >>]

\* lines 43-52: a GPX with one track holding one segment, NSMAP registered
NewGpx == [nsmap |-> NSMAP, tracks |-> << [segments |-> << [points |-> <<>>] >>] >>]

\* Variant of AddPoint: the point is inserted at the head of the list.
AddPointFront(g, pt) == [g EXCEPT !.tracks[1].segments[1].points = <<pt>> \o @]

\* gpx_segment.points.append(gpx_point) (line 108)
AddPoint(g, pt) == [g EXCEPT !.tracks[1].segments[1].points = Append(@, pt)]

\* A trkpt element of the document; gpxpy puts the elements of
\* point.extensions inside the point's own extensions element.
PointXml(p) ==
    [lat |-> p.latitude, lon |-> p.longitude, ele |-> p.elevation,
     time |-> p.time,
     extensions |-> IF p.extensions = <<>> THEN <<>>
                    ELSE << Element("extensions", <<>>, p.extensions) >>]

\* gpx.to_xml() (line 112): the root declares every prefix of nsmap and holds
\* the tracks, their segments and their points in list order.
ToXml(g) ==
    [xmlns |-> { ns[1] : ns \in g.nsmap },
     trk |-> [i \in 1..Len(g.tracks) |->
        [trkseg |-> [j \in 1..Len(g.tracks[i].segments) |->
           [trkpt |-> [k \in 1..Len(g.tracks[i].segments[j].points) |->
               PointXml(g.tracks[i].segments[j].points[k])]]]]]]

----------------------------------------------------------------------------
(* State *)

VARIABLES
    pc,            \* position in convert_fit_to_gpx
    input_source,  \* argument
    output_dest,   \* argument, reassigned at line 118
    dest_arg,      \* output_dest as the caller passed it
    fitfile,       \* the FitFile: messages yielded so far, input handle open
    gpx,           \* the GPX object (gpx_track and gpx_segment are inside it)
    points_added,
    xml_data,      \* <<>> until line 112, then <<document>>
    fs,            \* the file system: path -> [exists, data]
    stream,        \* what the file-like output_dest has received
    out_open,      \* the output file of line 127 is open
    diag,          \* the lines printed
    raised,        \* the exception that left the call, "" for none
    ret            \* the value returned: <<>> is None

vars == << pc, input_source, output_dest, dest_arg, fitfile, gpx, points_added,
           xml_data, fs, stream, out_open, diag, raised, ret >>

NoFitFile == [messages |-> <<>>, open |-> FALSE]

Init ==
    /\ pc = "start"
    /\ input_source \in InputSources
    /\ output_dest \in OutputDests
    /\ dest_arg = output_dest
    /\ fitfile = NoFitFile
    /\ gpx = EmptyGpx
    /\ points_added = 0
    /\ xml_data = <<>>
    /\ fs = InitFs(input_source)
    /\ stream = <<>>
    /\ out_open = FALSE
    /\ diag = <<>>
    /\ raised = ""
    /\ ret = <<>>

----------------------------------------------------------------------------
(* Steps of convert_fit_to_gpx *)

Report(line) == diag' = Append(diag, line)

\* lines 24-32
CheckInput ==
    /\ pc = "start"
    /\ IF input_source.is_str /\ ~input_source.exists
       THEN /\ Report("Error: File not found.")
            /\ pc' = "done"
       ELSE /\ Report("Parsing...")
            /\ pc' = "load"
    /\ UNCHANGED << input_source, dest_arg, output_dest, fitfile, gpx, points_added,
                    xml_data, fs, stream, out_open, raised, ret >>

\* lines 35-37, the header is valid: FitFile opens a path itself and reads
\* the header; no message is parsed yet.
LoadFit ==
    /\ pc = "load"
    /\ fitfile' = [messages |-> <<>>, open |-> input_source.is_str]
    /\ pc' = "init"
    /\ UNCHANGED << input_source, dest_arg, output_dest, gpx, points_added, xml_data,
                    fs, stream, out_open, diag, raised, ret >>

\* Variant of LoadFitError: the return of line 40 is missing.
LoadFitErrorNoReturn ==
    /\ pc = "load"
    /\ fitfile' = [messages |-> <<>>, open |-> input_source.is_str]
    /\ Report("Error parsing .fit file")
    /\ pc' = "init"
    /\ UNCHANGED << input_source, dest_arg, output_dest, gpx, points_added,
                    xml_data, fs, stream, out_open, raised, ret >>

\* lines 35-40, the header is not valid: FitParseError is caught. The
\* FitFile whose constructor raised had opened the path; nothing in the
\* handler closes it, so whether the file is closed when the call returns
\* is left to the collection of the abandoned object.
LoadFitError ==
    /\ pc = "load"
    /\ \E collected \in BOOLEAN :
         fitfile' = [messages |-> <<>>, open |-> input_source.is_str /\ ~collected]
    /\ Report("Error parsing .fit file")
    /\ pc' = "done"
    /\ UNCHANGED << input_source, dest_arg, output_dest, gpx, points_added, xml_data,
                    fs, stream, out_open, raised, ret >>

\* lines 43-54
InitGpx ==
    /\ pc = "init"
    /\ gpx' = NewGpx
    /\ points_added' = 0
    /\ pc' = "loop"
    /\ UNCHANGED << input_source, dest_arg, output_dest, fitfile, xml_data, fs, stream,
                    out_open, diag, raised, ret >>

\* lines 57-109: get_messages parses and yields the next record message,
\* and the loop body runs on it.
ProcessRecord(record_data) ==
    /\ pc = "loop"
    /\ Len(fitfile.messages) < MaxRecords
    /\ fitfile' = [fitfile EXCEPT !.messages = Append(@, record_data)]
    /\ IF Qualifies(record_data)
       THEN /\ gpx' = AddPoint(gpx, TrackPoint(record_data))
            /\ points_added' = points_added + 1
       ELSE UNCHANGED << gpx, points_added >>
    /\ UNCHANGED << pc, input_source, dest_arg, output_dest, xml_data, fs, stream,
                    out_open, diag, raised, ret >>

\* Variant of DecodeError: the error is caught around the loop, reported,
\* and the points collected so far are serialised.
DecodeErrorCaught ==
    /\ pc = "loop"
    /\ Report("Error parsing .fit file")
    /\ pc' = "to_xml"
    /\ UNCHANGED << input_source, dest_arg, output_dest, fitfile, gpx, points_added,
                    xml_data, fs, stream, out_open, raised, ret >>

\* line 57: get_messages meets bad message framing or a bad trailing CRC;
\* the FitParseError is raised inside the loop, where nothing catches it.
DecodeError ==
    /\ pc = "loop"
    /\ raised' = "FitParseError"
    /\ pc' = "done"
    /\ UNCHANGED << input_source, dest_arg, output_dest, fitfile, gpx, points_added,
                    xml_data, fs, stream, out_open, diag, ret >>

\* line 57: the stream ends with a good CRC; FitFile closes the file it
\* opened and the loop ends.
EndOfRecords ==
    /\ pc = "loop"
    /\ fitfile' = [fitfile EXCEPT !.open = FALSE]
    /\ pc' = "to_xml"
    /\ UNCHANGED << input_source, dest_arg, output_dest, gpx, points_added, xml_data,
                    fs, stream, out_open, diag, raised, ret >>

\* line 112
Serialize ==
    /\ pc = "to_xml"
    /\ xml_data' = << ToXml(gpx) >>
    /\ pc' = "dispatch"
    /\ UNCHANGED << input_source, dest_arg, output_dest, fitfile, gpx, points_added,
                    fs, stream, out_open, diag, raised, ret >>

\* lines 115-118: no destination, the input is a path
DerivePath ==
    /\ pc = "dispatch"
    /\ output_dest.kind = "None"
    /\ input_source.is_str
    /\ output_dest' = [kind |-> "str", path |-> DerivedPath(input_source.path)]
    /\ pc' = "write"
    /\ UNCHANGED << input_source, dest_arg, fitfile, gpx, points_added, xml_data, fs,
                    stream, out_open, diag, raised, ret >>

\* lines 115-121: no destination, the input is an object
ReturnXml ==
    /\ pc = "dispatch"
    /\ output_dest.kind = "None"
    /\ ~input_source.is_str
    /\ ret' = xml_data
    /\ pc' = "done"
    /\ UNCHANGED << input_source, dest_arg, output_dest, fitfile, gpx, points_added,
                    xml_data, fs, stream, out_open, diag, raised >>

\* line 115: a destination is given
KeepDest ==
    /\ pc = "dispatch"
    /\ output_dest.kind # "None"
    /\ pc' = "write"
    /\ UNCHANGED << input_source, dest_arg, output_dest, fitfile, gpx, points_added,
                    xml_data, fs, stream, out_open, diag, raised, ret >>

\* lines 124-129: open() and write() succeed, the with block closes the file
WritePath ==
    /\ pc = "write"
    /\ output_dest.kind = "str"
    /\ fs' = [fs EXCEPT ![output_dest.path] = [exists |-> TRUE, data |-> xml_data]]
    /\ diag' = diag \o <<"Writing points to path...", "Conversion successful!">>
    /\ pc' = "done"
    /\ UNCHANGED << input_source, dest_arg, output_dest, fitfile, gpx, points_added,
                    xml_data, stream, out_open, raised, ret >>

\* Variant of WritePathError: the handler prints and raises again.
WritePathErrorReraise ==
    /\ pc = "write"
    /\ output_dest.kind = "str"
    /\ diag' = diag \o <<"Writing points to path...", "Error writing GPX file">>
    /\ raised' = "OSError"
    /\ pc' = "done"
    /\ UNCHANGED << input_source, dest_arg, output_dest, fitfile, gpx,
                    points_added, xml_data, fs, stream, out_open, ret >>

\* lines 124-131: open() fails (the file system is untouched), or open()
\* truncates the file and write() fails; the with block closes the file and
\* the exception is caught.
WritePathError ==
    /\ pc = "write"
    /\ output_dest.kind = "str"
    /\ \E opened \in BOOLEAN :
         fs' = IF opened
               THEN [fs EXCEPT ![output_dest.path] = [exists |-> TRUE, data |-> <<>>]]
               ELSE fs
    /\ diag' = diag \o <<"Writing points to path...", "Error writing GPX file">>
    /\ pc' = "done"
    /\ UNCHANGED << input_source, dest_arg, output_dest, fitfile, gpx, points_added,
                    xml_data, stream, out_open, raised, ret >>

\* lines 133-136
WriteStream ==
    /\ pc = "write"
    /\ output_dest.kind = "writer"
    /\ stream' = stream \o xml_data
    /\ Report("Written points to output stream.")
    /\ pc' = "done"
    /\ UNCHANGED << input_source, dest_arg, output_dest, fitfile, gpx, points_added,
                    xml_data, fs, out_open, raised, ret >>

\* lines 133-138: write() raises, the exception is caught
WriteStreamError ==
    /\ pc = "write"
    /\ output_dest.kind = "writer"
    /\ Report("Error writing to output stream")
    /\ pc' = "done"
    /\ UNCHANGED << input_source, dest_arg, output_dest, fitfile, gpx, points_added,
                    xml_data, fs, stream, out_open, raised, ret >>

\* lines 124 and 133 both false: the function ends and returns None
NoWriter ==
    /\ pc = "write"
    /\ output_dest.kind = "other"
    /\ pc' = "done"
    /\ UNCHANGED << input_source, dest_arg, output_dest, fitfile, gpx, points_added,
                    xml_data, fs, stream, out_open, diag, raised, ret >>

Next ==
    \/ CheckInput
    \/ LoadFit
    \/ LoadFitError
    \/ InitGpx
    \/ \E record_data \in Records : ProcessRecord(record_data)
    \/ DecodeError
    \/ EndOfRecords
    \/ Serialize
    \/ DerivePath
    \/ ReturnXml
    \/ KeepDest
    \/ WritePath
    \/ WritePathError
    \/ WriteStream
    \/ WriteStreamError
    \/ NoWriter

Spec == Init /\ [][Next]_vars

----------------------------------------------------------------------------
(* Vocabulary of the properties *)

\* The records decoded so far
Decoded == fitfile.messages

\* A record with position_lat, position_long and timestamp
HasAllThree(r) ==
    r.position_lat # <<>> /\ r.position_long # <<>> /\ r.timestamp # <<>>

\* The decoded records that have all three, in decoding order
Complete == SelectSeq(Decoded, HasAllThree)

\* The point list of the segment
SegmentPoints ==
    IF gpx.tracks = <<>> THEN <<>> ELSE gpx.tracks[1].segments[1].points

DocumentProduced == xml_data # <<>>

\* The trkpt elements of the document, in document order
DocPoints ==
    IF DocumentProduced /\ Len(xml_data[1].trk) >= 1
                        /\ Len(xml_data[1].trk[1].trkseg) >= 1
    THEN xml_data[1].trk[1].trkseg[1].trkpt
    ELSE <<>>

\* Every trkpt element comes from the complete record of the same rank
Aligned == Len(DocPoints) = Len(Complete)

HasSensorData(r) ==
    r.heart_rate # <<>> \/ r.cadence # <<>> \/ r.temperature # <<>>

InRange(r) ==
    /\ ~Exceeds(r.position_lat[1], 90)
    /\ ~Exceeds(r.position_long[1], 180)

\* Decoding failed: in the header (caught, line 39) or later (line 57)
DecodeFailed ==
    \/ raised = "FitParseError"
    \/ \E i \in 1..Len(diag) : diag[i] = "Error parsing .fit file"

\* A write to the destination was attempted and failed (lines 131, 138)
WriteFailed ==
    /\ diag # <<>>
    /\ diag[Len(diag)] \in {"Error writing GPX file", "Error writing to output stream"}

\* The path the call writes to, for the destination and input it was given
TargetPath ==
    IF dest_arg.kind = "str" THEN dest_arg.path
    ELSE [base |-> input_source.path.base, ext |-> "gpx"]

\* No file other than the target differs from what it was before the call
OnlyTargetTouched ==
    \A p \in Paths : p # TargetPath => fs[p] = InitFs(input_source)[p]

NothingWritten == fs = InitFs(input_source) /\ stream = <<>>

----------------------------------------------------------------------------
(* C1 *)

\* C1 as stated: the heuristic is applied to each coordinate on its own: the
\* emitted latitude is converted iff |lat| > 90 and the emitted longitude is
\* converted iff |lon| > 180. Refuted by lat = 90.5, lon = 10.0.
C1_PerAxis ==
    Aligned =>
      \A i \in 1..Len(DocPoints) :
        LET lat == Complete[i].position_lat[1]
            lon == Complete[i].position_long[1]
        IN  /\ DocPoints[i].lat = IF Exceeds(lat, 90) THEN ToDegrees(lat) ELSE lat
            /\ DocPoints[i].lon = IF Exceeds(lon, 180) THEN ToDegrees(lon) ELSE lon

\* C1 amended: the heuristic is one test for the pair: when |lat| > 90 or
\* |lon| > 180 both emitted coordinates are the record's values times
\* 180 / 2^31, otherwise both are the record's values unchanged.
C1_Joint ==
    /\ DocumentProduced => Aligned
    /\ \A i \in 1..Len(DocPoints) :
        LET lat == Complete[i].position_lat[1]
            lon == Complete[i].position_long[1]
        IN  IF Exceeds(lat, 90) \/ Exceeds(lon, 180)
            THEN /\ DocPoints[i].lat = ToDegrees(lat)
                 /\ DocPoints[i].lon = ToDegrees(lon)
            ELSE /\ DocPoints[i].lat = lat
                 /\ DocPoints[i].lon = lon

\* A document whose point comes from lat = 90.5, lon = 10.0: the longitude
\* is converted with the latitude.
C1_Witness ==
    /\ pc = "done"
    /\ \E i \in 1..Len(DocPoints) :
        /\ Complete[i].position_lat[1] = HalfDeg(181)
        /\ Complete[i].position_long[1] = Deg(10)
        /\ DocPoints[i].lat = ToDegrees(HalfDeg(181))
        /\ DocPoints[i].lon = ToDegrees(Deg(10))

----------------------------------------------------------------------------
(* C2 *)

\* C2 as stated: the document declares the gpxtpx namespace iff at least
\* one of its points carries heart_rate, cadence or temperature.
C2_DeclaredIffUsed ==
    DocumentProduced =>
      ( "gpxtpx" \in xml_data[1].xmlns
          <=> \E i \in 1..Len(DocPoints) : DocPoints[i].extensions # <<>> )

\* C2 amended: every document declares the gpxtpx namespace, whether or not
\* a point carries sensor data; a point of the document has an extensions
\* element iff its record has heart_rate, cadence or temperature, so a
\* document without such a record has no extensions element.
C2_AlwaysDeclared ==
    DocumentProduced =>
      /\ "gpxtpx" \in xml_data[1].xmlns
      /\ Aligned
      /\ \A i \in 1..Len(DocPoints) :
           DocPoints[i].extensions # <<>> <=> HasSensorData(Complete[i])

\* A document with a point, no sensor data anywhere, and the declaration
C2_Witness ==
    /\ pc = "done"
    /\ Len(DocPoints) >= 1
    /\ \A i \in 1..Len(Decoded) : ~HasSensorData(Decoded[i])
    /\ \A i \in 1..Len(DocPoints) : DocPoints[i].extensions = <<>>
    /\ "gpxtpx" \in xml_data[1].xmlns

----------------------------------------------------------------------------
(* C3 *)

\* The loop is at a record boundary or past the loop
PastInit == pc \in {"loop", "to_xml", "dispatch", "write", "done"} /\ gpx.tracks # <<>>

\* C3: a record contributes a point iff it has position_lat, position_long
\* and timestamp; the number of points is at most the number of decoded
\* records, with equality exactly when every record has all three; and the
\* step that takes a record never raises or leaves the loop.
C3_PointCount ==
    PastInit =>
      /\ Len(SegmentPoints) = Len(Complete)
      /\ points_added = Len(Complete)
      /\ Len(SegmentPoints) <= Len(Decoded)
      /\ ( Len(SegmentPoints) = Len(Decoded)
             <=> \A i \in 1..Len(Decoded) : HasAllThree(Decoded[i]) )
      /\ DocumentProduced => Len(DocPoints) = Len(Complete)

C3_SkipIsSilent ==
    [][ fitfile.messages' # fitfile.messages =>
          /\ raised' = "" /\ pc' = "loop" /\ diag' = diag
          /\ Len(SegmentPoints') = Len(SegmentPoints) +
               (IF HasAllThree(fitfile.messages'[Len(fitfile.messages')])
                THEN 1 ELSE 0) ]_vars

C3_Skip == []C3_PointCount /\ C3_SkipIsSilent

\* Two records decoded, one of them without timestamp: one point
C3_Witness ==
    /\ pc = "done"
    /\ DocumentProduced
    /\ Len(Decoded) = 2
    /\ Len(DocPoints) = 1
    /\ \E i \in 1..2 : Decoded[i].timestamp = <<>> /\ Decoded[i].position_lat # <<>>
                        /\ Decoded[i].position_long # <<>>

----------------------------------------------------------------------------
(* C4 *)

\* The document is at the target path and nowhere else
WrittenToTarget ==
    /\ fs[TargetPath] = [exists |-> TRUE, data |-> xml_data]
    /\ OnlyTargetTouched
    /\ stream = <<>>
    /\ ret = <<>>

\* C4 as stated: every call whose decode succeeds ends with the document
\* written to the given destination, or written to the derived path, or
\* returned; never with the document neither written nor returned.
C4_WrittenOrReturned ==
    (pc = "done" /\ DocumentProduced) =>
      CASE dest_arg.kind = "str" -> WrittenToTarget
        [] dest_arg.kind = "writer" ->
             stream = xml_data /\ fs = InitFs(input_source) /\ ret = <<>>
        [] dest_arg.kind = "other" ->
             \/ \E p \in Paths : fs[p].data = xml_data
             \/ stream = xml_data
             \/ ret = xml_data
        [] dest_arg.kind = "None" /\ input_source.is_str -> WrittenToTarget
        [] OTHER -> ret = xml_data /\ NothingWritten

\* C4 amended: the destination and the kind of input choose where the one
\* delivery is attempted: a str destination, or no destination and a str
\* input (then the input path with its extension replaced by .gpx): one
\* write to that path, which holds the document when the write succeeds and
\* no document when it fails, and nothing is written elsewhere or returned;
\* an object with write(): it receives the document or, when its write()
\* fails, nothing; no destination and an input that is no str: the document
\* is returned and nothing is written; a destination that is neither a str
\* nor has write(): nothing is written and nothing is returned.
C4_Delivery ==
    (pc = "done" /\ DocumentProduced) =>
      CASE dest_arg.kind = "str" \/ (dest_arg.kind = "None" /\ input_source.is_str) ->
             /\ OnlyTargetTouched /\ stream = <<>> /\ ret = <<>>
             /\ IF WriteFailed
                THEN fs[TargetPath].data = <<>>
                ELSE fs[TargetPath] = [exists |-> TRUE, data |-> xml_data]
        [] dest_arg.kind = "writer" ->
             /\ fs = InitFs(input_source) /\ ret = <<>>
             /\ stream = IF WriteFailed THEN <<>> ELSE xml_data
        [] dest_arg.kind = "other" -> NothingWritten /\ ret = <<>>
        [] OTHER -> ret = xml_data /\ NothingWritten /\ ~WriteFailed

\* No destination, the input is the path ride.fit: the document is in
\* ride.gpx and the input file is as it was
C4_Witness ==
    /\ pc = "done"
    /\ DocumentProduced
    /\ dest_arg.kind = "None"
    /\ input_source.path = [base |-> "ride", ext |-> "fit"]
    /\ fs[[base |-> "ride", ext |-> "gpx"]].data = xml_data
    /\ fs[[base |-> "ride", ext |-> "fit"]] = [exists |-> TRUE, data |-> <<>>]

----------------------------------------------------------------------------
(* C5 *)

\* C5: when decoding fails, in the header or later in the stream, the call
\* has written no file, has written nothing to the sink and returns no
\* document.
C5_NoOutputOnDecodeFailure ==
    DecodeFailed => NothingWritten /\ ret = <<>> /\ xml_data = <<>>

\* A call that failed in the stream after a point was collected
C5_Witness ==
    /\ pc = "done"
    /\ raised = "FitParseError"
    /\ Len(SegmentPoints) >= 1
    /\ dest_arg.kind = "str"
    /\ NothingWritten

\* A call that failed in the header
C5_HeaderWitness ==
    /\ pc = "done"
    /\ DecodeFailed
    /\ raised = ""
    /\ NothingWritten

----------------------------------------------------------------------------
(* C6 *)

\* C6 as stated: a write failure ends the call with an outcome the caller
\* can tell from a decode failure and from success, it is not raised as the
\* decoder's error, and the document stays available to the caller.
C6_FailureVisible ==
    (pc = "done" /\ WriteFailed) =>
      /\ raised # "FitParseError"
      /\ raised # "" \/ ret # <<>>
      /\ ret = xml_data

\* C6 amended: a write failure is caught inside the call: a write-error line
\* is printed, which is not the line of a decode failure, nothing is raised
\* (so never the decoder's error), and the call returns None, as it does
\* after a successful write and after a header failure; the document is not
\* handed to the caller.
C6_FailureSwallowed ==
    (pc = "done" /\ WriteFailed) =>
      /\ raised = ""
      /\ ret = <<>>
      /\ ~DecodeFailed
      /\ DocumentProduced
      /\ \A p \in Paths : fs[p].data = <<>>
      /\ stream = <<>>

\* A failed write to a path, after open() created the file
C6_Witness ==
    /\ pc = "done"
    /\ WriteFailed
    /\ output_dest.kind = "str"
    /\ fs[output_dest.path] = [exists |-> TRUE, data |-> <<>>]
    /\ Len(DocPoints) >= 1

----------------------------------------------------------------------------
(* C7 *)

\* int() of the text str() produced
DigitValue(c) == CHOOSE d \in 0..9 : DigitChar(d) = c
RECURSIVE DigitsValue(_)
DigitsValue(t) ==
    IF t = <<>> THEN 0
    ELSE 10 * DigitsValue(SubSeq(t, 1, Len(t) - 1)) + DigitValue(t[Len(t)])
IntOf(t) == IF t[1] = "-" THEN -DigitsValue(Tail(t)) ELSE DigitsValue(t)

\* <<tag, value>> of the sensor fields a record has, in the order hr, cad, atemp
ExpectedChildren(r) ==
    (IF r.heart_rate # <<>> THEN << <<"gpxtpx:hr", r.heart_rate[1]>> >> ELSE <<>>)
    \o (IF r.cadence # <<>> THEN << <<"gpxtpx:cad", r.cadence[1]>> >> ELSE <<>>)
    \o (IF r.temperature # <<>> THEN << <<"gpxtpx:atemp", r.temperature[1]>> >> ELSE <<>>)

\* The gpxtpx:TrackPointExtension blocks of a trkpt element
ExtensionBlocks(pt) ==
    IF pt.extensions = <<>> THEN <<>>
    ELSE pt.extensions[1].children[1].children

\* C7: a point has an extensions block iff its record has heart_rate,
\* cadence or temperature, and the block's one TrackPointExtension holds
\* exactly the children hr, cad, atemp of the fields present, in that order,
\* each with the record's value (0 is present).
C7_PerField ==
    DocumentProduced =>
      /\ Aligned
      /\ \A i \in 1..Len(DocPoints) :
           LET r == Complete[i]
               pt == DocPoints[i]
               want == ExpectedChildren(r)
           IN  /\ pt.extensions # <<>> <=> want # <<>>
               /\ pt.extensions # <<>> =>
                    /\ Len(pt.extensions) = 1
                    /\ Len(ExtensionBlocks(pt)) = 1
                    /\ ExtensionBlocks(pt)[1].tag = "gpxtpx:TrackPointExtension"
                    /\ LET kids == ExtensionBlocks(pt)[1].children
                       IN  /\ Len(kids) = Len(want)
                           /\ \A k \in 1..Len(kids) :
                                /\ kids[k].tag = want[k][1]
                                /\ IntOf(kids[k].text) = want[k][2]
                                /\ kids[k].children = <<>>

\* A point with only heart_rate has only the hr child, and a point whose
\* cadence is 0 has a cad child
C7_Witness ==
    /\ pc = "done"
    /\ Len(DocPoints) = 2
    /\ Complete[1].heart_rate = <<150>>
    /\ Complete[1].cadence = <<>> /\ Complete[1].temperature = <<>>
    /\ Len(ExtensionBlocks(DocPoints[1])[1].children) = 1
    /\ ExtensionBlocks(DocPoints[1])[1].children[1].tag = "gpxtpx:hr"
    /\ Complete[2].cadence = <<0>>
    /\ \E k \in 1..Len(ExtensionBlocks(DocPoints[2])[1].children) :
         ExtensionBlocks(DocPoints[2])[1].children[k].tag = "gpxtpx:cad"

----------------------------------------------------------------------------
(* C8 *)

\* The point p carries the data of the record r
PointOf(p, r) ==
    /\ p.time = r.timestamp
    /\ p.elevation = r.altitude
    /\ p.latitude \in {r.position_lat[1], ToDegrees(r.position_lat[1])}
    /\ p.longitude \in {r.position_long[1], ToDegrees(r.position_long[1])}
    /\ p.extensions # <<>> <=> HasSensorData(r)

\* C8: after any prefix of the record stream, the segment's point list is
\* the sub-sequence of the records seen that have lat, lon and timestamp, in
\* source order, and the document lists the points in the same order.
C8_Order ==
    /\ Len(SegmentPoints) = Len(Complete)
    /\ \A i \in 1..Len(SegmentPoints) : PointOf(SegmentPoints[i], Complete[i])
    /\ DocumentProduced =>
         /\ Len(DocPoints) = Len(SegmentPoints)
         /\ \A i \in 1..Len(DocPoints) :
              /\ DocPoints[i].time = SegmentPoints[i].time
              /\ DocPoints[i].ele = SegmentPoints[i].elevation
              /\ DocPoints[i].lat = SegmentPoints[i].latitude
              /\ DocPoints[i].lon = SegmentPoints[i].longitude

\* Two different complete records: the document lists them in source order
C8_Witness ==
    /\ pc = "done"
    /\ Len(DocPoints) = 2
    /\ Complete[1].timestamp = <<"T1">>
    /\ Complete[2].timestamp = <<"T0">>
    /\ DocPoints[1].time = <<"T1">>
    /\ DocPoints[2].time = <<"T0">>

----------------------------------------------------------------------------
(* C9 *)

\* C9: every document has exactly one track with exactly one segment; when
\* no decoded record has lat, lon and timestamp the conversion still ends
\* without an error and the segment has no point.
C9_OneTrackOneSegment ==
    DocumentProduced =>
      /\ Len(xml_data[1].trk) = 1
      /\ Len(xml_data[1].trk[1].trkseg) = 1
      /\ raised = ""
      /\ ~DecodeFailed
      /\ Len(Complete) = 0 => Len(xml_data[1].trk[1].trkseg[1].trkpt) = 0

\* The only record lacks timestamp: the document is returned, with one
\* track, one segment and no point
C9_Witness ==
    /\ pc = "done"
    /\ Len(Decoded) = 1
    /\ Decoded[1].timestamp = <<>>
    /\ Decoded[1].position_lat # <<>>
    /\ ret # <<>>
    /\ Len(ret[1].trk) = 1
    /\ Len(ret[1].trk[1].trkseg) = 1
    /\ ret[1].trk[1].trkseg[1].trkpt = <<>>

----------------------------------------------------------------------------
(* C10 *)

\* C10: a record with |lat| <= 90 and |lon| <= 180, the boundaries included,
\* is emitted with its own latitude and longitude, normalising the emitted
\* pair again gives the same pair, and every emitted coordinate is the
\* record's value or that value converted once.
C10_InRangeUnchanged ==
    DocumentProduced =>
      /\ Aligned
      /\ \A i \in 1..Len(DocPoints) :
           LET lat == Complete[i].position_lat[1]
               lon == Complete[i].position_long[1]
               pt == DocPoints[i]
           IN  /\ pt.lat \in {lat, ToDegrees(lat)}
               /\ pt.lon \in {lon, ToDegrees(lon)}
               /\ InRange(Complete[i]) =>
                    /\ pt.lat = lat
                    /\ pt.lon = lon
                    /\ Normalize(pt.lat, pt.lon) = <<pt.lat, pt.lon>>

\* Points emitted from lat = 90, lon = 180 and from lat = -90, lon = -180
C10_Witness ==
    /\ pc = "done"
    /\ Len(DocPoints) = 2
    /\ Complete[1].position_lat = <<Deg(90)>> /\ Complete[1].position_long = <<Deg(180)>>
    /\ DocPoints[1].lat = Deg(90) /\ DocPoints[1].lon = Deg(180)
    /\ Complete[2].position_lat = <<Deg(-90)>> /\ Complete[2].position_long = <<Deg(-180)>>
    /\ DocPoints[2].lat = Deg(-90) /\ DocPoints[2].lon = Deg(-180)

----------------------------------------------------------------------------
(* C11 *)

\* Decoding failed in the header, before any message was parsed
HeaderFailed == DecodeFailed /\ raised = ""

\* Decoding failed in the message stream, inside the loop of line 57
StreamFailed == raised = "FitParseError"

\* C11 as stated: when decoding fails, no record has been transformed into
\* a track point and no document has been encoded: the whole stream is
\* decoded before the first record is transformed.
C11_DecodeBeforeTransform ==
    DecodeFailed =>
      /\ SegmentPoints = <<>>
      /\ points_added = 0
      /\ xml_data = <<>>

\* C11 amended: a decode failure is detected before any document is encoded;
\* a header failure is detected before any record is decoded or transformed;
\* a failure in the message stream is detected inside the record loop, after
\* every complete record decoded before it was transformed into a track
\* point, and these points are dropped with the failing call.
C11_DecodeBeforeEncode ==
    /\ DecodeFailed => xml_data = <<>> /\ pc = "done"
    /\ HeaderFailed =>
         /\ Decoded = <<>>
         /\ gpx = EmptyGpx
         /\ points_added = 0
    /\ StreamFailed =>
         /\ ~HeaderFailed
         /\ Len(SegmentPoints) = Len(Complete)
         /\ points_added = Len(Complete)
         /\ \A i \in 1..Len(SegmentPoints) :
              SegmentPoints[i].time = Complete[i].timestamp

\* The stream fails after two records were transformed into points
C11_Witness ==
    /\ pc = "done"
    /\ StreamFailed
    /\ Len(Decoded) = 2
    /\ points_added = 2
    /\ Len(SegmentPoints) = 2
    /\ xml_data = <<>>

----------------------------------------------------------------------------
(* C12 *)

\* C12: when the call has ended, by success, by a decode failure, by a write
\* failure or by an escaping exception, the input file it opened and the
\* output file it opened are closed.
C12_AllReleased ==
    pc = "done" => ~fitfile.open /\ ~out_open

====
